---- MODULE Spec2Model ----
(***************************************************************************)
(* Model of the 2D renderer of p5 (src/p5/sketch/renderer2d.py):           *)
(* classification of a shape into render primitives, the draw queue,       *)
(* flush_geometry with the line mesh builder, and the draw loop with its   *)
(* two framebuffer textures.                                               *)
(*                                                                         *)
(* Conventions.  A numpy array of rank 1 is a sequence of integers; the    *)
(* VALUES it holds are Python's 0-based indices, while the sequence itself *)
(* is indexed from 1 as TLA+ sequences are, so a[p] of Python is a[p + 1]. *)
(* A vertex position is abstracted to one integer coordinate.  A call that *)
(* can raise returns a record [ok, val]: ok = FALSE models the exception.  *)
(* Shapes of kind TESS and Arc shapes go through the external tessellator  *)
(* and are not modelled.                                                   *)
(***************************************************************************)
EXTENDS Integers, Sequences, FiniteSets, TLC

VARIABLES
    draw_queue,         \* Renderer2D.draw_queue: sequence of (stype, payload)
    transform_matrix,   \* Renderer2D.transform_matrix (a translation offset)
    fbuffer_tex_front,  \* Renderer2D.fbuffer_tex_front (texture identity)
    fbuffer_tex_back,   \* Renderer2D.fbuffer_tex_back  (texture identity)
    color_buffer,       \* Renderer2D.fbuffer.color_buffer
    fill_enabled,       \* p5.renderer.fill_enabled
    stroke_enabled,     \* p5.renderer.stroke_enabled
    in_loop,            \* control is inside the body of draw_loop (at yield)
    shape,              \* the shape last handed to render
    obj_list,           \* what get_render_primitives returned for it
    raised,             \* the last operation ended with an exception
    op,                 \* name of the last operation
    drawn,              \* GPU draw calls issued by the last operation
    n_render,           \* history: render calls since the queue was last empty
    cycles              \* history: <<front, back>> after each of the last
                        \* three completed draw cycles

vars == <<draw_queue, transform_matrix, fbuffer_tex_front, fbuffer_tex_back,
          color_buffer, fill_enabled, stroke_enabled, in_loop, shape,
          obj_list, raised, op, drawn, n_render, cycles>>

----------------------------------------------------------------------------
(* Bounds of the model *)

\* most vertices of a shape rendered inside the draw loop
MaxVert == 4
\* most render calls between two flushes
MaxRender == 2
\* most vertices of a shape in the single-shape specification
MaxVertPrim == 9
\* most render calls of the one shape in the single-shape specification
MaxBatch == 2
\* largest offset the sketch gives the current transform
MaxTransform == 2

----------------------------------------------------------------------------
(* Results of calls that can raise *)

Ok(v) == [ok |-> TRUE, val |-> v]

Raise == [ok |-> FALSE, val |-> <<>>]

----------------------------------------------------------------------------
(* numpy *)

Arange(a, b, s) ==
    LET cnt == IF b > a THEN (b - a + s - 1) \div s ELSE 0
    IN  [i \in 1..cnt |-> a + (i - 1) * s]

Tile(p, k) == [i \in 1..(Len(p) * k) |-> p[((i - 1) % Len(p)) + 1]]

Repeat(a, k) == [i \in 1..(Len(a) * k) |-> a[((i - 1) \div k) + 1]]

\* a + b of two rank-1 arrays: elementwise, a length-1 operand is broadcast,
\* any other pair of different lengths raises ValueError
NpAdd(a, b) ==
    IF Len(a) = Len(b) THEN Ok([i \in 1..Len(a) |-> a[i] + b[i]])
    ELSE IF Len(a) = 1 THEN Ok([i \in 1..Len(b) |-> a[1] + b[i]])
    ELSE IF Len(b) = 1 THEN Ok([i \in 1..Len(a) |-> a[i] + b[1]])
    ELSE Raise

\* np.asarray of a list of vertices: an array with one row per vertex
AsArray(list) == [ndim |-> IF Len(list) = 0 THEN 1 ELSE 2, rows |-> list]

\* np.asarray of a Python string: an array of rank 0, which has no len()
AsArrayOfStr == [ndim |-> 0, rows |-> <<>>]

RECURSIVE Flatten(_)
Flatten(ss) == IF Len(ss) = 0 THEN <<>> ELSE Head(ss) \o Flatten(Tail(ss))

----------------------------------------------------------------------------
(* Shapes *)

SType == {"POINTS", "LINES", "LINE_STRIP", "TRIANGLES", "TRIANGLE_STRIP",
          "TRIANGLE_FAN", "QUADS", "QUAD_STRIP"}

\* a shape of kind t with n vertices at the positions 10, 20, ..
Shape(t, n) ==
    [shape_type |-> t, vertices |-> [k \in 1..n |-> 10 * k],
     fill |-> "fill", stroke |-> "stroke", stroke_weight |-> 1,
     stroke_cap |-> "cap", stroke_join |-> "join", _matrix |-> 0]

----------------------------------------------------------------------------
(* Render primitives: [kind, vertices, idx] *)

_vertices_to_render_primitive(gl_name, vertices) ==
    [kind |-> gl_name, vertices |-> AsArray(vertices),
     idx |-> Arange(0, Len(vertices), 1)]

_get_line_from_verts(vertices) ==
    [kind |-> "lines", vertices |-> AsArray(vertices),
     idx |-> << Arange(0, Len(vertices), 1) >>]

\* np.vstack of an empty array raises, np.hstack of two columns of different
\* heights raises; otherwise one row (start, end) per edge
_get_line_from_indices(vertices, start, end) ==
    IF Len(start) = 0 \/ Len(end) = 0 \/ Len(start) # Len(end)
    THEN Raise
    ELSE Ok([kind |-> "lines", vertices |-> AsArray(vertices),
             idx |-> [i \in 1..Len(start) |-> <<start[i], end[i]>>]])

_add_edges_to_primitive_list(primitive_list, vertices, start, end) ==
    LET line == _get_line_from_indices(vertices, start, end)
    IN  IF line.ok THEN Ok(Append(primitive_list, line.val)) ELSE Raise

\* TRUE when no assertion fails
_check_shape(s) ==
    LET n_vert == Len(s.vertices)
        t == s.shape_type
    IN  /\ t \in {"TRIANGLES", "TRIANGLE_FAN", "TRIANGLE_STRIP"} => n_vert >= 3
        /\ t \in {"LINES", "LINE_STRIP"} => n_vert >= 2
        /\ t \in {"QUADS", "QUAD_STRIP"} => n_vert >= 4
        /\ t = "TRIANGLES" => n_vert % 3 = 0
        /\ t = "QUADS" => n_vert % 4 = 0

\* the end indices as they would be if the last offset of the pattern led to
\* the triangle's second vertex
TriangleBorderEnd_NotClosed(n_vert) ==
    NpAdd(Arange(0, n_vert, 1), Tile(<<1, 1, -1>>, n_vert \div 3))

\* np.arange(n_vert) + np.tile([1, 1, -2], n_vert // 3)
TriangleBorderEnd(n_vert) ==
    NpAdd(Arange(0, n_vert, 1), Tile(<<1, 1, -2>>, n_vert \div 3))

\* np.arange(n_vert) + np.tile([1, 1, 1, -3], n_vert // 4)
QuadBorderEnd(n_vert) ==
    NpAdd(Arange(0, n_vert, 1), Tile(<<1, 1, 1, -3>>, n_vert \div 4))

\* start and end index arrays of the border edges, for the kinds that have
\* them; the end array may be a raised sum
BorderStart(s) ==
    LET n_vert == Len(s.vertices)
        t == s.shape_type
    IN  CASE t = "TRIANGLES" -> Arange(0, n_vert, 1)
          [] t = "TRIANGLE_STRIP" ->
                Arange(0, n_vert - 1, 1) \o Arange(0, n_vert - 2, 1)
          [] t = "TRIANGLE_FAN" ->
                Repeat(<<0>>, n_vert - 1) \o Arange(1, n_vert - 1, 1)
          [] t = "QUADS" -> Arange(0, n_vert, 1)
          [] t = "QUAD_STRIP" ->
                Arange(0, n_vert, 2) \o Arange(0, n_vert - 2, 1)
          [] t = "LINES" -> Arange(0, n_vert, 2)

BorderEnd(s) ==
    LET n_vert == Len(s.vertices)
        t == s.shape_type
    IN  CASE t = "TRIANGLES" -> TriangleBorderEnd(n_vert)
          [] t = "TRIANGLE_STRIP" ->
                Ok(Arange(1, n_vert, 1) \o Arange(2, n_vert, 1))
          [] t = "TRIANGLE_FAN" ->
                Ok(Arange(1, n_vert, 1) \o Arange(2, n_vert, 1))
          [] t = "QUADS" -> QuadBorderEnd(n_vert)
          [] t = "QUAD_STRIP" ->
                Ok(Arange(1, n_vert, 2) \o Arange(2, n_vert, 1))
          [] t = "LINES" -> Ok(Arange(1, n_vert, 2))

_get_borders(s) ==
    LET t == s.shape_type
    IN  IF t \in {"TRIANGLES", "TRIANGLE_STRIP", "TRIANGLE_FAN", "QUADS",
                  "QUAD_STRIP", "LINES"}
        THEN IF BorderEnd(s).ok
             THEN _add_edges_to_primitive_list(<<>>, s.vertices,
                                               BorderStart(s), BorderEnd(s).val)
             ELSE Raise
        ELSE IF t = "LINE_STRIP"
        THEN Ok(<< _get_line_from_verts(s.vertices) >>)
        ELSE Ok(<<>>)

\* the index buffer as it would be if the quads were offset by their ordinal
\* and not by their first vertex
QuadIndices_ByOrdinal(n_vert) ==
    NpAdd(Repeat(Arange(0, n_vert \div 4, 1), 6),
          Tile(<<0, 1, 2, 0, 2, 3>>, n_vert \div 4))

\* index buffer of QUADS: repeat(arange(0, n, 4), 6) + tile([0,1,2,0,2,3], n_quad)
QuadIndices(n_vert) ==
    NpAdd(Repeat(Arange(0, n_vert, 4), 6),
          Tile(<<0, 1, 2, 0, 2, 3>>, n_vert \div 4))

_get_meshes(s) ==
    LET n_vert == Len(s.vertices)
        t == s.shape_type
    IN  IF t \in {"TRIANGLES", "TRIANGLE_STRIP", "TRIANGLE_FAN", "QUAD_STRIP"}
        THEN Ok(<< _vertices_to_render_primitive(
                     CASE t = "TRIANGLES" -> "triangles"
                       [] t = "TRIANGLE_STRIP" -> "triangle_strip"
                       [] t = "TRIANGLE_FAN" -> "triangle_fan"
                       [] t = "QUAD_STRIP" -> "triangle_strip",
                     s.vertices) >>)
        ELSE IF t = "QUADS"
        THEN IF QuadIndices(n_vert).ok
             THEN Ok(<< [kind |-> "triangles", vertices |-> AsArray(s.vertices),
                         idx |-> QuadIndices(n_vert).val] >>)
             ELSE Raise
        ELSE Ok(<<>>)

\* The POINTS branch calls _vertices_to_render_primitive(render_primitives,
\* 'points'): the primitive's kind is the list object itself (written
\* "[...]"), its vertex array is the rank-0 array of the string 'points'
\* and its indices are arange(len('points')).
PointsPrimitive ==
    [kind |-> "[...]", vertices |-> AsArrayOfStr, idx |-> Arange(0, 6, 1)]

get_render_primitives(s, fill, stroke) ==
    IF ~_check_shape(s) THEN Raise
    ELSE LET points == IF s.shape_type = "POINTS"
                       THEN << PointsPrimitive >> ELSE <<>>
             meshes == IF fill THEN _get_meshes(s) ELSE Ok(<<>>)
             borders == IF stroke THEN _get_borders(s) ELSE Ok(<<>>)
         IN  IF ~meshes.ok THEN Raise
             ELSE IF ~borders.ok THEN Raise
             ELSE Ok(points \o meshes.val \o borders.val)

----------------------------------------------------------------------------
(* The draw queue *)

\* OpenGLRenderer._transform_vertices: every vertex moved by the shape's own
\* matrix, then by the current transform
_transform_vertices(rows, local_matrix, global_matrix) ==
    [k \in 1..Len(rows) |-> rows[k] + local_matrix + global_matrix]

\* The entry appended for one primitive.  tag is a history label, not a
\* field of the program's tuple: <<ordinal of the render call, position of
\* the primitive in obj_list>>.
_add_to_draw_queue(q, stype, vertices, idx, fill, stroke, stroke_weight, stroke_cap, stroke_join, tag) ==
    IF stype = "lines"
    THEN Append(q, [stype |-> stype,
                    payload |-> [vertices |-> vertices, idx |-> idx,
                                 stroke |-> stroke,
                                 stroke_weight |-> stroke_weight,
                                 stroke_cap |-> stroke_cap,
                                 stroke_join |-> stroke_join, tag |-> tag]])
    ELSE Append(q, [stype |-> stype,
                    payload |-> [vertices |-> vertices, idx |-> idx,
                                 fill |-> fill, tag |-> tag]])

\* The loop of render over obj_list[k..]: np.hstack([vertices, np.ones(
\* (len(vertices), 1))]) raises on an array of rank 0, and the entries
\* appended before that stay in the queue.
RECURSIVE RenderLoop(_, _, _, _, _, _)
RenderLoop(objs, k, q, s, transform, r) ==
    IF k > Len(objs) THEN Ok(q)
    ELSE IF objs[k].vertices.ndim = 0 THEN [ok |-> FALSE, val |-> q]
    ELSE RenderLoop(objs, k + 1,
             _add_to_draw_queue(q, objs[k].kind,
                 _transform_vertices(objs[k].vertices.rows, s._matrix, transform),
                 objs[k].idx, s.fill, s.stroke, s.stroke_weight,
                 s.stroke_cap, s.stroke_join, <<r, k>>),
             s, transform, r)

\* render as it would be if a failed call dropped what was queued
render_DropsQueue(q, s, objs, transform, r) ==
    IF ~objs.ok THEN [ok |-> FALSE, val |-> <<>>]
    ELSE RenderLoop(objs.val, 1, q, s, transform, r)

\* render as it would be if the vertices were queued as the shape has them,
\* the current transform being left to the draw call
render_IgnoresTransform(q, s, objs, transform, r) ==
    IF ~objs.ok THEN [ok |-> FALSE, val |-> q]
    ELSE RenderLoop(objs.val, 1, q, s, 0, r)

\* Renderer2D.render: [ok, val] where val is the draw queue afterwards
render(q, s, objs, transform, r) ==
    IF ~objs.ok THEN [ok |-> FALSE, val |-> q]
    ELSE RenderLoop(objs.val, 1, q, s, transform, r)

----------------------------------------------------------------------------
(* The line mesh builder *)

\* line[0][segment[p]]
VertexAt(line, segment, p) == line.vertices[segment[p + 1] + 1]

\* the pairs as they would be if the loop stopped one pair early
SegmentPairs_StopsEarly(line, segment) ==
    [i1 \in 1..(IF Len(segment) > 1 THEN Len(segment) - 2 ELSE 0) |->
        [line |-> line, segment |-> segment, i |-> i1 - 1]]

\* the consecutive vertex pairs (line, segment, i) in the order of the loops
SegmentPairs(line, segment) ==
    [i1 \in 1..(IF Len(segment) > 0 THEN Len(segment) - 1 ELSE 0) |->
        [line |-> line, segment |-> segment, i |-> i1 - 1]]

LinePairs(line) ==
    Flatten([g \in 1..Len(line.idx) |-> SegmentPairs(line, line.idx[g])])

QueuePairs(queue) == Flatten([l \in 1..Len(queue) |-> LinePairs(queue[l])])

TriangleCorners == <<0, 0, 1, 0, 1, 1>>

\* posPrev as it would be if the corner offset j were left out of the index
PosPrev_IgnoresCorner(p) ==
    [c \in 1..6 |->
        IF p.i - 1 >= 0
        THEN VertexAt(p.line, p.segment, p.i - 1)
        ELSE VertexAt(p.line, p.segment, p.i)]

PosPrev(p) ==
    [c \in 1..6 |->
        LET j == TriangleCorners[c]
        IN  IF p.i + j - 1 >= 0
            THEN VertexAt(p.line, p.segment, p.i + j - 1)
            ELSE VertexAt(p.line, p.segment, p.i + j)]

PosNext(p) ==
    [c \in 1..6 |->
        LET j == TriangleCorners[c]
        IN  IF p.i + j + 1 < Len(p.segment)
            THEN VertexAt(p.line, p.segment, p.i + j + 1)
            ELSE VertexAt(p.line, p.segment, p.i + j)]

PosCurr(p) ==
    [c \in 1..6 |-> VertexAt(p.line, p.segment, p.i + TriangleCorners[c])]

Markers(p) == <<1, -1, -1, -1, 1, -1>>

Side(p) == <<1, 1, -1, 1, -1, -1>>

Pos(p) == [c \in 1..6 |-> VertexAt(p.line, p.segment, p.i)]

\* Renderer2D.render_line: the draw calls it issues (none or one), with the
\* attribute arrays handed to line_prog
render_line(queue) ==
    LET pairs == QueuePairs(queue)
        Attr(F(_)) == Flatten([k \in 1..Len(pairs) |-> F(pairs[k])])
        Width(p) == [c \in 1..6 |-> p.line.stroke_weight]
        Join(p) == [c \in 1..6 |-> p.line.stroke_join]
        Cap(p) == [c \in 1..6 |-> p.line.stroke_cap]
        Color(p) == [c \in 1..6 |-> p.line.stroke]
    IN  IF Len(queue) = 0 \/ Len(pairs) = 0 THEN <<>>
        ELSE << [prog |-> "line", mode |-> "triangles", queue |-> queue,
                 pos |-> Attr(Pos), posPrev |-> Attr(PosPrev),
                 posCurr |-> Attr(PosCurr), posNext |-> Attr(PosNext),
                 marker |-> Attr(Markers), side |-> Attr(Side),
                 linewidth |-> Attr(Width), join_type |-> Attr(Join),
                 cap_type |-> Attr(Cap), color |-> Attr(Color)] >>

\* OpenGLRenderer.render_default: one draw of default_prog in the given mode
render_default(draw_type, queue) ==
    IF Len(queue) = 0 THEN <<>>
    ELSE << [prog |-> "default", mode |-> draw_type, queue |-> queue] >>

----------------------------------------------------------------------------
(* Flushing *)

\* the draw calls of one turn of the loop of flush_geometry
FlushEntry(entry) ==
    IF entry.stype = "lines"
    THEN render_line(<< entry.payload >>)
    ELSE render_default(entry.stype, << entry.payload >>)

\* flush_geometry as it would be if it walked the queue from its end
flush_geometry_Reversed(q) ==
    Flatten([k \in 1..Len(q) |-> FlushEntry(q[Len(q) + 1 - k])])

\* Renderer2D.flush_geometry: the draw calls issued, in order
flush_geometry(q) == Flatten([k \in 1..Len(q) |-> FlushEntry(q[k])])

\* the queue as it would be if flush_geometry did not reset it
FlushedQueue_Kept(q) == q

\* the draw queue after flush_geometry
FlushedQueue(q) == <<>>

----------------------------------------------------------------------------
(* The renderer as a state machine *)

\* Renderer2D.__init__ and reset_view: an empty queue, the identity
\* transform and two freshly created textures, 1 (front) and 2 (back);
\* the last of the two to be cleared is left as the colour buffer
Init ==
    /\ draw_queue = <<>>
    /\ transform_matrix = 0
    /\ fbuffer_tex_front = 1
    /\ fbuffer_tex_back = 2
    /\ color_buffer = 2
    /\ fill_enabled = TRUE
    /\ stroke_enabled = TRUE
    /\ in_loop = FALSE
    /\ shape = Shape("POINTS", 0)
    /\ obj_list = Ok(<<>>)
    /\ raised = FALSE
    /\ op = "init"
    /\ drawn = <<>>
    /\ n_render = 0
    /\ cycles = <<>>

\* draw_loop up to its yield: the transform is reset, the back texture
\* becomes the colour buffer and the front texture is drawn into it
DrawLoopEnter ==
    /\ ~in_loop
    /\ in_loop' = TRUE
    /\ transform_matrix' = 0
    /\ color_buffer' = fbuffer_tex_back
    /\ drawn' = << [prog |-> "fbuffer", mode |-> "triangle_strip",
                    texture |-> fbuffer_tex_front,
                    target |-> fbuffer_tex_back] >>
    /\ op' = "draw_loop_enter"
    /\ raised' = FALSE
    /\ UNCHANGED <<draw_queue, fbuffer_tex_front, fbuffer_tex_back,
                   fill_enabled, stroke_enabled, shape, obj_list, n_render,
                   cycles>>

\* render(s) with the fill and stroke switches as the sketch set them just
\* before the call
RenderShape(s, fill, stroke) ==
    LET objs == get_render_primitives(s, fill, stroke)
        res == render(draw_queue, s, objs, transform_matrix, n_render + 1)
    IN  /\ shape' = s
        /\ fill_enabled' = fill
        /\ stroke_enabled' = stroke
        /\ obj_list' = objs
        /\ raised' = ~res.ok
        /\ draw_queue' = res.val
        /\ n_render' = n_render + 1
        /\ drawn' = <<>>
        /\ op' = "render"
        /\ UNCHANGED <<transform_matrix, fbuffer_tex_front, fbuffer_tex_back,
                       color_buffer, cycles>>

\* the kinds of shape rendered inside the draw loop: one without mesh or
\* border, one with a border only, and one with a mesh and a border
LoopKinds == {"POINTS", "LINES", "TRIANGLES"}

\* a render call in the body of the draw loop; an exception it raises
\* unwinds draw_loop, whose code after the yield is then not run
Render ==
    /\ in_loop
    /\ n_render < MaxRender
    /\ \E t \in LoopKinds, n \in 0..MaxVert, fill \in BOOLEAN,
          stroke \in BOOLEAN :
          RenderShape(Shape(t, n), fill, stroke)
    /\ in_loop' = ~raised'

\* a call of flush_geometry
FlushGeometry ==
    /\ in_loop
    /\ drawn' = flush_geometry(draw_queue)
    /\ draw_queue' = FlushedQueue(draw_queue)
    /\ n_render' = 0
    /\ op' = "flush_geometry"
    /\ raised' = FALSE
    /\ UNCHANGED <<transform_matrix, fbuffer_tex_front, fbuffer_tex_back,
                   color_buffer, fill_enabled, stroke_enabled, in_loop, shape,
                   obj_list, cycles>>

\* render_image: the queue is flushed, then the image is drawn at once
RenderImage ==
    /\ in_loop
    /\ op # "render_image"
    /\ drawn' = flush_geometry(draw_queue) \o
                << [prog |-> "texture", mode |-> "triangle_strip",
                    transform |-> transform_matrix] >>
    /\ draw_queue' = FlushedQueue(draw_queue)
    /\ n_render' = 0
    /\ op' = "render_image"
    /\ raised' = FALSE
    /\ UNCHANGED <<transform_matrix, fbuffer_tex_front, fbuffer_tex_back,
                   color_buffer, fill_enabled, stroke_enabled, in_loop, shape,
                   obj_list, cycles>>

\* the last three elements of a sequence
LastThree(h) == IF Len(h) <= 3 THEN h ELSE SubSeq(h, Len(h) - 2, Len(h))

\* the swap as two assignments in a row, the second reading the new front
SwapTextures_Sequential(front, back) == [front |-> back, back |-> back]

\* the textures after the swap that ends draw_loop
SwapTextures(front, back) == [front |-> back, back |-> front]

\* draw_loop after its yield: flush, reset of the transform, the back
\* texture drawn to the screen (target 0), and the swap of the two textures
DrawLoopExit ==
    /\ in_loop
    /\ in_loop' = FALSE
    /\ drawn' = flush_geometry(draw_queue) \o
                << [prog |-> "fbuffer", mode |-> "triangle_strip",
                    texture |-> fbuffer_tex_back, target |-> 0] >>
    /\ draw_queue' = FlushedQueue(draw_queue)
    /\ n_render' = 0
    /\ transform_matrix' = 0
    /\ fbuffer_tex_front' = SwapTextures(fbuffer_tex_front, fbuffer_tex_back).front
    /\ fbuffer_tex_back' = SwapTextures(fbuffer_tex_front, fbuffer_tex_back).back
    /\ cycles' = LastThree(Append(cycles, <<fbuffer_tex_front', fbuffer_tex_back'>>))
    /\ op' = "draw_loop_exit"
    /\ raised' = FALSE
    /\ UNCHANGED <<color_buffer, fill_enabled, stroke_enabled, shape, obj_list>>

Next ==
    \/ DrawLoopEnter
    \/ Render
    \/ FlushGeometry
    \/ RenderImage
    \/ DrawLoopExit

Spec == Init /\ [][Next]_vars

----------------------------------------------------------------------------
(* One shape: the shape and the two switches are drawn at the start, the   *)
(* shape is rendered, and the queue is flushed or handed to render_line.   *)

InitPrim ==
    /\ draw_queue = <<>>
    /\ transform_matrix = 0
    /\ fbuffer_tex_front = 1
    /\ fbuffer_tex_back = 2
    /\ color_buffer = 2
    /\ fill_enabled \in BOOLEAN
    /\ stroke_enabled \in BOOLEAN
    /\ in_loop = TRUE
    /\ shape \in {Shape(t, n) : t \in SType, n \in 0..MaxVertPrim}
    /\ obj_list = Ok(<<>>)
    /\ raised = FALSE
    /\ op = "init"
    /\ drawn = <<>>
    /\ n_render = 0
    /\ cycles = <<>>

\* render of the shape drawn at the start
RenderInput ==
    /\ n_render < MaxBatch
    /\ ~raised
    /\ RenderShape(shape, fill_enabled, stroke_enabled)
    /\ UNCHANGED in_loop

\* the payloads of the 'lines' entries of a queue, in order
RECURSIVE LinePayloads(_)
LinePayloads(q) ==
    IF Len(q) = 0 THEN <<>>
    ELSE (IF Head(q).stype = "lines" THEN << Head(q).payload >> ELSE <<>>)
         \o LinePayloads(Tail(q))

\* a call of render_line with all the line entries of the queue at once
CallRenderLine ==
    /\ op = "render"
    /\ drawn' = render_line(LinePayloads(draw_queue))
    /\ op' = "render_line"
    /\ raised' = FALSE
    /\ UNCHANGED <<draw_queue, transform_matrix, fbuffer_tex_front,
                   fbuffer_tex_back, color_buffer, fill_enabled,
                   stroke_enabled, in_loop, shape, obj_list, n_render, cycles>>

NextPrim ==
    \/ RenderInput
    \/ FlushGeometry
    \/ CallRenderLine

SpecPrim == InitPrim /\ [][NextPrim]_vars

----------------------------------------------------------------------------
(* Claims *)

\* the vertex-count constraint documented for each kind of shape
CountViolation(s) ==
    LET n == Len(s.vertices)
        t == s.shape_type
    IN  \/ t \in {"TRIANGLES", "TRIANGLE_STRIP", "TRIANGLE_FAN"} /\ n < 3
        \/ t \in {"LINES", "LINE_STRIP"} /\ n < 2
        \/ t \in {"QUADS", "QUAD_STRIP"} /\ n < 4
        \/ t = "TRIANGLES" /\ n % 3 # 0
        \/ t = "QUADS" /\ n % 4 # 0

\* C1: for every kind and vertex count, under any setting of the fill and
\* stroke switches, get_render_primitives fails if and only if the count
\* violates the kind's documented constraint.
C1_FailsIffCountViolates ==
    op = "render" => (~obj_list.ok <=> CountViolation(shape))

----------------------------------------------------------------------------
(* Claims about the draw queue and the draw loop, under Spec *)

FlushOps == {"flush_geometry", "render_image", "draw_loop_exit"}

\* C2: a render call that fails leaves the draw queue exactly as it was.
C2_FailedRenderKeepsQueue ==
    [][(op' = "render" /\ raised') => draw_queue' = draw_queue]_vars

\* a render call failed on its vertex count with shapes already queued
C2_Witness ==
    /\ op = "render"
    /\ raised
    /\ CountViolation(shape)
    /\ Len(draw_queue) > 0

\* the history labels of the entries of a queue, in order
QueueTags(q) == [k \in 1..Len(q) |-> q[k].payload.tag]

\* the history labels of the entries handed to the draw calls, in order
RECURSIVE DrawnTags(_)
DrawnTags(d) ==
    IF Len(d) = 0 THEN <<>>
    ELSE (IF Head(d).prog \in {"line", "default"}
          THEN [k \in 1..Len(Head(d).queue) |-> Head(d).queue[k].tag]
          ELSE <<>>) \o DrawnTags(Tail(d))

\* entries of an earlier render call come first; within one call the entries
\* keep the order of obj_list, and the mesh comes before the border
InsertionOrdered(q) ==
    \A i, j \in 1..Len(q) :
        LET a == q[i].payload.tag
            b == q[j].payload.tag
        IN  /\ (a[1] < b[1] \/ (a[1] = b[1] /\ a[2] < b[2])) <=> i < j
            /\ (a[1] = b[1] /\ q[i].stype # "lines" /\ q[j].stype = "lines")
                  => i < j

\* C3: the queue holds the entries in the order of the render calls, mesh
\* before border, and a flush draws them in exactly that order.
C3_DrawsInInsertionOrder ==
    [][/\ InsertionOrdered(draw_queue')
       /\ op' \in FlushOps => DrawnTags(drawn') = QueueTags(draw_queue)]_vars

\* a flush has drawn the mesh and the border of one shape and then a second
\* shape
C3_Witness ==
    /\ op \in FlushOps
    /\ Len(DrawnTags(drawn)) >= 3
    /\ DrawnTags(drawn)[1] = <<1, 1>>
    /\ DrawnTags(drawn)[2] = <<1, 2>>
    /\ DrawnTags(drawn)[3] = <<2, 1>>

\* the maximal runs of consecutive 'lines' entries of a queue: the payloads
\* of each run, in order
RECURSIVE LineRuns(_, _)
LineRuns(q, run) ==
    IF Len(q) = 0 THEN (IF Len(run) = 0 THEN <<>> ELSE << run >>)
    ELSE IF Head(q).stype = "lines"
    THEN LineRuns(Tail(q), Append(run, Head(q).payload))
    ELSE (IF Len(run) = 0 THEN <<>> ELSE << run >>) \o LineRuns(Tail(q), <<>>)

\* the arguments of the calls of render_line that drew something
RECURSIVE LineCalls(_)
LineCalls(d) ==
    IF Len(d) = 0 THEN <<>>
    ELSE (IF Head(d).prog = "line" THEN << Head(d).queue >> ELSE <<>>)
         \o LineCalls(Tail(d))

\* C4: a flush hands each maximal run of consecutive 'lines' entries to
\* render_line in one call, so there are as many calls as runs.
C4_LineRunsBatched ==
    [][op' \in FlushOps => LineCalls(drawn') = LineRuns(draw_queue, <<>>)]_vars

\* C5: after a flush the queue is empty, and a flush of an empty queue
\* issues no draw call.
C5_FlushEmptiesQueue ==
    [][/\ op' \in FlushOps => draw_queue' = <<>>
       /\ (op' = "flush_geometry" /\ draw_queue = <<>>) => drawn' = <<>>]_vars

\* a flush of a queue that held entries has drawn them and left it empty
C5_Witness ==
    /\ op = "flush_geometry"
    /\ drawn # <<>>
    /\ draw_queue = <<>>

\* C6: a completed draw cycle exchanges the roles of the two textures and
\* creates none: front and back are the two textures made at the start, the
\* write target of the cycle is the front after it, the front after one
\* cycle is the back after the next, and after two cycles the roles are
\* back where they were.
C6_TexturesAlternate ==
    /\ {fbuffer_tex_front, fbuffer_tex_back} = {1, 2}
    /\ fbuffer_tex_front # fbuffer_tex_back
    /\ in_loop => color_buffer = fbuffer_tex_back
    /\ op = "draw_loop_exit" => fbuffer_tex_front = color_buffer
    /\ Len(cycles) = 0 => fbuffer_tex_front = 1
    /\ Len(cycles) >= 1 =>
          cycles[Len(cycles)] = <<fbuffer_tex_front, fbuffer_tex_back>>
    /\ \A k \in 1..(Len(cycles) - 1) :
          /\ cycles[k][1] = cycles[k + 1][2]
          /\ cycles[k][2] = cycles[k + 1][1]
    /\ Len(cycles) = 1 => cycles[1] = <<2, 1>>
    /\ Len(cycles) = 3 => cycles[1] = cycles[3]

\* three draw cycles have completed
C6_Witness ==
    /\ op = "draw_loop_exit"
    /\ Len(cycles) = 3

\* C10: render of a POINTS shape with n vertices does not fail and queues
\* one 'points' entry over the shape's n vertices, indexed 0..n-1.
C10_PointsQueued ==
    (op = "render" /\ shape.shape_type = "POINTS") =>
        /\ ~raised
        /\ Len(obj_list.val) = 1
        /\ obj_list.val[1].kind = "points"
        /\ obj_list.val[1].vertices.rows = shape.vertices
        /\ obj_list.val[1].idx = Arange(0, Len(shape.vertices), 1)
        /\ Len(draw_queue) >= 1
        /\ draw_queue[Len(draw_queue)].stype = "points"

----------------------------------------------------------------------------
(* Claims about one shape, under SpecPrim *)

\* the number of consecutive vertex pairs in the segments of line entries
RECURSIVE SegmentsPairCount(_)
SegmentsPairCount(segments) ==
    IF Len(segments) = 0 THEN 0
    ELSE Len(Head(segments)) - 1 + SegmentsPairCount(Tail(segments))

RECURSIVE PairCount(_)
PairCount(queue) ==
    IF Len(queue) = 0 THEN 0
    ELSE SegmentsPairCount(Head(queue).idx) + PairCount(Tail(queue))

\* C7: render_line emits 6 vertices for every consecutive vertex pair of
\* every segment of every line entry it is given, with the markers
\* (1,-1,-1,-1,1,-1) and the sides (1,1,-1,1,-1,-1) for each pair.
C7_SixVerticesPerPair ==
    \A d \in 1..Len(drawn) :
        drawn[d].prog = "line" =>
            LET m == drawn[d]
                n == PairCount(m.queue)
            IN  /\ n >= 1
                /\ Len(m.pos) = 6 * n
                /\ Len(m.posPrev) = 6 * n
                /\ Len(m.posCurr) = 6 * n
                /\ Len(m.posNext) = 6 * n
                /\ Len(m.marker) = 6 * n
                /\ Len(m.side) = 6 * n
                /\ \A i \in 1..(6 * n) :
                      /\ m.marker[i] = <<1, -1, -1, -1, 1, -1>>[((i - 1) % 6) + 1]
                      /\ m.side[i] = <<1, 1, -1, 1, -1, -1>>[((i - 1) % 6) + 1]

\* render_line was given two line entries with four vertex pairs or more in
\* segments of three vertices or more
C7_Witness ==
    /\ op = "render_line"
    /\ Len(drawn) = 1
    /\ Len(drawn[1].queue) = 2
    /\ Len(drawn[1].queue[1].idx[1]) >= 3
    /\ PairCount(drawn[1].queue) >= 4

\* C8: for QUADS with fill enabled and 4N vertices the mesh has 6N indices,
\* those of quad q being (4q, 4q+1, 4q+2, 4q, 4q+2, 4q+3), none above 4N-1.
C8_QuadIndices ==
    (/\ op = "render"
     /\ shape.shape_type = "QUADS"
     /\ fill_enabled
     /\ obj_list.ok) =>
        LET n == Len(shape.vertices)
            mesh == obj_list.val[1]
        IN  /\ n % 4 = 0
            /\ n >= 4
            /\ mesh.kind = "triangles"
            /\ Len(mesh.idx) = 6 * (n \div 4)
            /\ \A q \in 0..((n \div 4) - 1) :
                  SubSeq(mesh.idx, 6 * q + 1, 6 * q + 6) =
                     <<4 * q, 4 * q + 1, 4 * q + 2, 4 * q, 4 * q + 2, 4 * q + 3>>
            /\ \A i \in 1..Len(mesh.idx) : mesh.idx[i] <= n - 1

\* two quads were given a mesh
C8_Witness ==
    /\ op = "render"
    /\ shape.shape_type = "QUADS"
    /\ fill_enabled
    /\ obj_list.ok
    /\ Len(shape.vertices) = 8

\* C9: the border of TRIANGLES (k = 3) and of QUADS (k = 4) has, for each
\* group of k consecutive vertices, the k edges of the closed loop through
\* the group and no other edge.
C9_ClosedLoops ==
    (/\ op = "render"
     /\ shape.shape_type \in {"TRIANGLES", "QUADS"}
     /\ stroke_enabled
     /\ obj_list.ok) =>
        LET n == Len(shape.vertices)
            k == IF shape.shape_type = "TRIANGLES" THEN 3 ELSE 4
            border == obj_list.val[Len(obj_list.val)]
        IN  /\ n % k = 0
            /\ border.kind = "lines"
            /\ Len(border.idx) = n
            /\ \A i \in 0..(n - 1) :
                  border.idx[i + 1] = <<i, k * (i \div k) + ((i + 1) % k)>>

\* two triangles were given a border
C9_Witness ==
    /\ op = "render"
    /\ shape.shape_type = "TRIANGLES"
    /\ stroke_enabled
    /\ obj_list.ok
    /\ Len(shape.vertices) = 6

----------------------------------------------------------------------------
(* The neighbour positions of the line mesh, under SpecPrim *)

\* the vertex pairs of a queue of line entries, listed by walking the
\* entries, their segments and the positions in each segment
RECURSIVE PairsOfSegment(_, _, _)
PairsOfSegment(vertices, segment, i) ==
    IF i + 1 >= Len(segment) THEN <<>>
    ELSE << [vertices |-> vertices, segment |-> segment, i |-> i] >>
         \o PairsOfSegment(vertices, segment, i + 1)

RECURSIVE PairsOfSegments(_, _)
PairsOfSegments(vertices, segments) ==
    IF Len(segments) = 0 THEN <<>>
    ELSE PairsOfSegment(vertices, Head(segments), 0)
         \o PairsOfSegments(vertices, Tail(segments))

RECURSIVE PairsOfQueue(_)
PairsOfQueue(queue) ==
    IF Len(queue) = 0 THEN <<>>
    ELSE PairsOfSegments(Head(queue).vertices, Head(queue).idx)
         \o PairsOfQueue(Tail(queue))

\* the position of the vertex at place v (from 0) of a pair's segment
PlaceInSegment(pair, v) == pair.vertices[pair.segment[v + 1] + 1]

\* C11: each output vertex of render_line has as current position a vertex
\* of its own segment, as previous position the vertex before it in the
\* segment and as next position the vertex after it, the first vertex of a
\* segment being its own previous and the last its own next; the anchor of
\* the six vertices of a pair is the pair's left vertex.
C11_NeighboursClampedToSegment ==
    \A d \in 1..Len(drawn) :
        drawn[d].prog = "line" =>
            LET m == drawn[d]
                pairs == PairsOfQueue(m.queue)
            IN  /\ Len(m.posCurr) = 6 * Len(pairs)
                /\ \A o \in 1..Len(m.posCurr) :
                      LET pair == pairs[((o - 1) \div 6) + 1]
                          last == Len(pair.segment) - 1
                          v == pair.i + <<0, 0, 1, 0, 1, 1>>[((o - 1) % 6) + 1]
                      IN  /\ v \in 0..last
                          /\ m.posCurr[o] = PlaceInSegment(pair, v)
                          /\ m.posPrev[o] =
                                PlaceInSegment(pair, IF v = 0 THEN 0 ELSE v - 1)
                          /\ m.posNext[o] =
                                PlaceInSegment(pair, IF v = last THEN last ELSE v + 1)
                          /\ m.pos[o] = PlaceInSegment(pair, pair.i)

\* render_line was given two line entries of one segment of three vertices
\* or more each: there are inner vertices and clamped ends
C11_Witness ==
    /\ op = "render_line"
    /\ Len(drawn) = 1
    /\ Len(drawn[1].queue) = 2
    /\ Len(drawn[1].queue[1].idx) = 1
    /\ Len(drawn[1].queue[1].idx[1]) >= 3
    /\ drawn[1].posPrev[1] = drawn[1].posCurr[1]
    /\ drawn[1].posPrev[12] # drawn[1].posCurr[12]

----------------------------------------------------------------------------
(* The current transform: the draw loop with a sketch that moves the       *)
(* current transform between its render calls.                             *)

\* the sketch changes the current transform (translate and the like)
SetTransform ==
    /\ in_loop
    /\ \E t \in 0..MaxTransform :
          /\ t # transform_matrix
          /\ transform_matrix' = t
    /\ drawn' = <<>>
    /\ op' = "set_transform"
    /\ raised' = FALSE
    /\ UNCHANGED <<draw_queue, fbuffer_tex_front, fbuffer_tex_back,
                   color_buffer, fill_enabled, stroke_enabled, in_loop, shape,
                   obj_list, n_render, cycles>>

\* a render call of a TRIANGLES shape in the body of the draw loop, with
\* the switches as they are; an exception unwinds draw_loop
RenderTriangles ==
    /\ in_loop
    /\ n_render < MaxRender
    /\ \E n \in 2..MaxVert :
          RenderShape(Shape("TRIANGLES", n), fill_enabled, stroke_enabled)
    /\ in_loop' = ~raised'

NextTransform ==
    \/ DrawLoopEnter
    \/ RenderTriangles
    \/ SetTransform
    \/ FlushGeometry
    \/ DrawLoopExit

SpecTransform == Init /\ [][NextTransform]_vars

\* the payloads handed to the draw calls, in order
RECURSIVE DrawnPayloads(_)
DrawnPayloads(d) ==
    IF Len(d) = 0 THEN <<>>
    ELSE (IF Head(d).prog \in {"line", "default"} THEN Head(d).queue ELSE <<>>)
         \o DrawnPayloads(Tail(d))

\* C12: the entries a render call queues have the shape's vertices moved by
\* the transform current at that call; no later step changes an entry in
\* the queue, whatever it does to the current transform, and a flush hands
\* the entries to the draw calls as they were queued.
C12_TransformBakedAtRender ==
    [][/\ op' = "render" =>
            /\ Len(draw_queue') >= Len(draw_queue)
            /\ SubSeq(draw_queue', 1, Len(draw_queue)) = draw_queue
            /\ \A k \in (Len(draw_queue) + 1)..Len(draw_queue') :
                  draw_queue'[k].payload.vertices =
                     [i \in 1..Len(shape'.vertices) |->
                         shape'.vertices[i] + shape'._matrix + transform_matrix]
       /\ op' \notin (FlushOps \cup {"render"}) => draw_queue' = draw_queue
       /\ op' \in FlushOps =>
            DrawnPayloads(drawn') =
               [k \in 1..Len(draw_queue) |-> draw_queue[k].payload]]_vars

\* the queue holds entries of two render calls made under different
\* transforms, and the current transform has since been changed to a third
C12_Witness ==
    /\ op = "set_transform"
    /\ Len(draw_queue) >= 2
    /\ draw_queue[1].payload.vertices[1] # draw_queue[Len(draw_queue)].payload.vertices[1]
    /\ draw_queue[1].payload.vertices[1] # 10 + transform_matrix
    /\ draw_queue[Len(draw_queue)].payload.vertices[1] # 10 + transform_matrix

----------------------------------------------------------------------------
(* The border index arrays, under SpecPrim *)

BorderKinds == {"TRIANGLES", "TRIANGLE_STRIP", "TRIANGLE_FAN", "QUADS",
                "QUAD_STRIP", "LINES"}

\* no undirected edge is listed twice in the paired arrays
NoEdgeTwice(start, end) ==
    \A i, j \in 1..Len(start) :
        i < j => {start[i], end[i]} # {start[j], end[j]}

\* C13: for a shape of a kind with border edges whose vertex count passes
\* the validation, border generation gives a start and an end array of the
\* same length, with every index in 0..n-1 and no undirected edge twice.
C13_BorderArraysPaired ==
    (/\ op = "render"
     /\ stroke_enabled
     /\ shape.shape_type \in BorderKinds
     /\ _check_shape(shape)) =>
        LET n == Len(shape.vertices)
            start == BorderStart(shape)
            end == BorderEnd(shape)
        IN  /\ end.ok
            /\ Len(start) = Len(end.val)
            /\ \A i \in 1..Len(start) : start[i] \in 0..(n - 1)
            /\ \A i \in 1..Len(end.val) : end.val[i] \in 0..(n - 1)
            /\ NoEdgeTwice(start, end.val)

====
